---------------------------- MODULE Spec2Model ----------------------------
(***************************************************************************)
(* Model of the HomeKit-over-BLE protocol core of stm32wb55-homekit:       *)
(*   - homekit-ble/src/lib.rs: the HAP PDU parser (HapPdu::parse), the     *)
(*     opcode model (OpCode::try_from) and the response writer             *)
(*     (HapResponse::size, HapResponse::write_into);                       *)
(*   - stm32wb55-homekit/src/main.rs: the firmware event loop (run),       *)
(*     HapAccessory::handle_event, perform_command, Characteristic::       *)
(*     set_value and ProtocolService::handle_attribute_modified.           *)
(* Bytes are integers 0..255, byte slices are sequences (index i of the    *)
(* source is index i+1 here).  A Rust panic is an outcome of its own,      *)
(* kind "Panic": the firmware's panic handler never returns.               *)
(***************************************************************************)
EXTENDS Integers, Sequences, FiniteSets, TLC

VARIABLES
    parse_in,     \* the buffer handed to HapPdu::parse
    parse_out,    \* what HapPdu::parse returned for it
    wr_resp,      \* the HapResponse that write_into is called on
    wr_before,    \* the output buffer as the caller passed it
    wr_buffer,    \* the output buffer after write_into
    wr_result,    \* what write_into returned
    protocol_service, \* the ProtocolService of the HapAccessory
    pc,           \* where the firmware is: "run_loop" (run's receive_event),
                  \* "perform_command" (perform_command's receive_event),
                  \* "panicked"; "boot" before run has set the accessory up
    command,      \* the command perform_command has sent and waits on
    dispatch,     \* the event run last took from the queue, and what
                  \* handle_attribute_modified did for it
    gatt_value,   \* the BLE stack's value of each characteristic of the service
    command_response \* the event perform_command last took from the queue

vars == <<parse_in, parse_out, wr_resp, wr_before, wr_buffer, wr_result,
          protocol_service, pc, command, dispatch, gatt_value,
          command_response>>

codec_vars == <<parse_in, parse_out, wr_resp, wr_before, wr_buffer, wr_result>>

firmware_vars ==
    <<protocol_service, pc, command, dispatch, gatt_value, command_response>>

(***************************************************************************)
(* Bounds of the model.                                                    *)
(***************************************************************************)
MaxBufLen == 6
MaxBodyLen == 2
MaxSlack == 1

(***************************************************************************)
(* Integer helpers: the bit operators of the source on unsigned values.    *)
(***************************************************************************)
RECURSIVE BitAnd(_, _)
BitAnd(a, b) ==
    IF a = 0 \/ b = 0 THEN 0
    ELSE (a % 2) * (b % 2) + 2 * BitAnd(a \div 2, b \div 2)

Shl(a, n) == a * 2^n

Shr(a, n) == a \div 2^n

\* `x as u8`: truncation to the low 8 bits
AsU8(x) == x % 256

U16_MAX == 65535

\* u16::from_le_bytes
U16FromLeBytes(b) == b[1] + 256 * b[2]

\* &data[from..]  (0-based, as in the source)
SliceFrom(data, from) == SubSeq(data, from + 1, Len(data))

(***************************************************************************)
(* Results.  Ok/Err values of the source are records tagged by "kind".     *)
(***************************************************************************)
Err(e, v) == [kind |-> "Err", err |-> e, value |-> v]

Panic(m) == [kind |-> "Panic", msg |-> m]

NotCalled == [kind |-> "NotCalled"]

(***************************************************************************)
(* OpCode::try_from.  The two variants before it are faulty versions of    *)
(* the mapping (two opcodes exchanged; the byte 0 accepted), kept to show  *)
(* that the properties below depend on the mapping.                        *)
(***************************************************************************)
OpCode_try_from_Swapped(value) ==
    CASE value = 1 -> [kind |-> "Ok", op_code |-> "CharacteristicSignatureRead"]
      [] value = 2 -> [kind |-> "Ok", op_code |-> "CharacteristicRead"]
      [] value = 3 -> [kind |-> "Ok", op_code |-> "CharacteristicWrite"]
      [] value = 4 -> [kind |-> "Ok", op_code |-> "CharacteristicTimedWrite"]
      [] value = 5 -> [kind |-> "Ok", op_code |-> "CharacteristicExecuteWrite"]
      [] value = 6 -> [kind |-> "Ok", op_code |-> "ServiceSignatureRead"]
      [] value = 7 -> [kind |-> "Ok", op_code |-> "CharacteristicConfiguration"]
      [] value = 8 -> [kind |-> "Ok", op_code |-> "ProtocolConfiguration"]
      [] OTHER -> Err("UnknownOpCode", value)

OpCode_try_from_AcceptsZero(value) ==
    CASE value = 1 -> [kind |-> "Ok", op_code |-> "CharacteristicSignatureRead"]
      [] value = 2 -> [kind |-> "Ok", op_code |-> "CharacteristicWrite"]
      [] value = 3 -> [kind |-> "Ok", op_code |-> "CharacteristicRead"]
      [] value = 4 -> [kind |-> "Ok", op_code |-> "CharacteristicTimedWrite"]
      [] value = 5 -> [kind |-> "Ok", op_code |-> "CharacteristicExecuteWrite"]
      [] value = 6 -> [kind |-> "Ok", op_code |-> "ServiceSignatureRead"]
      [] value = 7 -> [kind |-> "Ok", op_code |-> "CharacteristicConfiguration"]
      [] value = 8 -> [kind |-> "Ok", op_code |-> "ProtocolConfiguration"]
      [] value = 0 -> [kind |-> "Ok", op_code |-> "CharacteristicSignatureRead"]
      [] OTHER -> Err("UnknownOpCode", value)

OpCode_try_from(value) ==
    CASE value = 1 -> [kind |-> "Ok", op_code |-> "CharacteristicSignatureRead"]
      [] value = 2 -> [kind |-> "Ok", op_code |-> "CharacteristicWrite"]
      [] value = 3 -> [kind |-> "Ok", op_code |-> "CharacteristicRead"]
      [] value = 4 -> [kind |-> "Ok", op_code |-> "CharacteristicTimedWrite"]
      [] value = 5 -> [kind |-> "Ok", op_code |-> "CharacteristicExecuteWrite"]
      [] value = 6 -> [kind |-> "Ok", op_code |-> "ServiceSignatureRead"]
      [] value = 7 -> [kind |-> "Ok", op_code |-> "CharacteristicConfiguration"]
      [] value = 8 -> [kind |-> "Ok", op_code |-> "ProtocolConfiguration"]
      [] OTHER -> Err("UnknownOpCode", value)

(***************************************************************************)
(* HapRequest::parse_after_control: data is the buffer after its control   *)
(* byte.  The length check comes first, then the opcode, then the fields.  *)
(* parse_after_control_OpCodeFirst is the faulty variant that validates    *)
(* the opcode before the length.                                           *)
(***************************************************************************)
HapRequest(iid_size, op_code, tid, char_id) ==
    [kind |-> "Request", iid_size |-> iid_size, op_code |-> op_code,
     tid |-> tid, char_id |-> char_id]

parse_after_control_OpCodeFirst(data, iid_size) ==
    IF Len(data) >= 1 /\ OpCode_try_from(data[1]).kind = "Err"
    THEN OpCode_try_from(data[1])
    ELSE IF Len(data) < 4 THEN Err("BadLength", 0)
    ELSE HapRequest(iid_size, OpCode_try_from(data[1]).op_code, data[2],
                    U16FromLeBytes(SubSeq(data, 3, 4)))

parse_after_control(data, iid_size) ==
    IF Len(data) < 4 THEN Err("BadLength", 0)
    ELSE LET op_code == OpCode_try_from(data[1])
         IN  IF op_code.kind = "Err" THEN op_code
             ELSE LET tid == data[2]
                      char_id == U16FromLeBytes(SubSeq(data, 3, 4))
                  IN  HapRequest(iid_size, op_code.op_code, tid, char_id)

(***************************************************************************)
(* HapPdu::parse.  The order is the source's: the empty buffer, the        *)
(* assertion on the fragmentation bit, the reserved bits of the PDU type,  *)
(* then the request/response match.                                        *)
(***************************************************************************)
HapPdu_parse(data) ==
    IF Len(data) = 0 THEN Err("BadLength", 0)
    ELSE
    LET control_field == data[1]
        fragmented == IF BitAnd(control_field, Shl(1, 7)) = Shl(1, 7)
                      THEN "Continuation" ELSE "First"
        iid_size == IF BitAnd(control_field, Shl(1, 4)) = Shl(1, 4)
                    THEN "Bit64" ELSE "Bit16"
        request_type == IF BitAnd(control_field, Shl(1, 1)) = Shl(1, 1)
                        THEN "Response" ELSE "Request"
    IN  IF fragmented # "First" THEN Panic("Continuation not yet implemented")
        ELSE IF BitAnd(12, control_field) # 0
        THEN Err("UnsupportedPduType", Shr(BitAnd(control_field, 14), 1))
        ELSE IF request_type = "Request"
        THEN parse_after_control(SliceFrom(data, 1), iid_size)
        ELSE Panic("not implemented: Not yet implemented")


(***************************************************************************)
(* HapStatus and its wire value (`self.status as u8`).                     *)
(***************************************************************************)
HapStatusValues ==
    {"Success", "UnsupportedPdu", "MaxProcedures", "InsufficientAuthorization",
     "InvalidInstanceId", "InsufficientAuthentication", "InvalidRequest"}

HapStatus_as_u8(status) ==
    CASE status = "Success" -> 0
      [] status = "UnsupportedPdu" -> 1
      [] status = "MaxProcedures" -> 2
      [] status = "InsufficientAuthorization" -> 3
      [] status = "InvalidInstanceId" -> 4
      [] status = "InsufficientAuthentication" -> 5
      [] status = "InvalidRequest" -> 6

(***************************************************************************)
(* HapResponse::new, HapResponse::size                                     *)
(***************************************************************************)
HapResponse_new(tid, status, data) == [tid |-> tid, status |-> status, data |-> data]

HapResponse_size(self) ==
    LET header_len == 3
        body_len == IF Len(self.data) > 0 THEN Len(self.data) + 2 ELSE 0
    IN  header_len + body_len

(***************************************************************************)
(* HapResponse::write_into.  Indexing a slice out of its bounds panics, so *)
(* every store goes through Store/CopyFromSlice, which carry the panic.    *)
(* A write state is [result, buffer]; result "Ok" means "no failure yet".  *)
(***************************************************************************)
WriteState(result, buffer) == [result |-> result, buffer |-> buffer]

\* buffer[i] = v  (i is 0-based)
Store(st, i, v) ==
    IF st.result.kind # "Ok" THEN st
    ELSE IF i >= Len(st.buffer)
    THEN WriteState(Panic("index out of bounds"), st.buffer)
    ELSE WriteState(st.result, [st.buffer EXCEPT ![i + 1] = v])

\* buffer[from..(from + len)].copy_from_slice(src)
CopyFromSlice(st, from, src) ==
    IF st.result.kind # "Ok" THEN st
    ELSE IF from + Len(src) > Len(st.buffer)
    THEN WriteState(Panic("range end index out of range"), st.buffer)
    ELSE WriteState(st.result,
             SubSeq(st.buffer, 1, from) \o src
                 \o SubSeq(st.buffer, from + Len(src) + 1, Len(st.buffer)))

HapResponse_write_body(self, st) ==
    IF Len(self.data) > 0
    THEN LET s3 == Store(st, 3, AsU8(Len(self.data)))
             s4 == Store(s3, 4, AsU8(Shr(Len(self.data), 8)))
         IN  CopyFromSlice(s4, 5, self.data)
    ELSE st

HapResponse_write_header_TidLowBits(self, st) ==
    LET s0 == Store(st, 0, 2)
        s1 == Store(s0, 1, self.tid % 128)
    IN  Store(s1, 2, HapStatus_as_u8(self.status))

HapResponse_write_header(self, st) ==
    LET s0 == Store(st, 0, 2)
        s1 == Store(s0, 1, self.tid)
    IN  Store(s1, 2, HapStatus_as_u8(self.status))

HapResponse_write_into_HighByteFirst(self, buffer) ==
    IF HapResponse_size(self) > Len(buffer)
    THEN WriteState(Err("InsufficientBuffer", 0), buffer)
    ELSE IF Len(self.data) > U16_MAX
    THEN WriteState(Panic("Data for HapResponse has to be < u16::MAX"), buffer)
    ELSE LET hdr == HapResponse_write_header(self, WriteState([kind |-> "Ok"], buffer))
         IN  IF Len(self.data) > 0
             THEN CopyFromSlice(
                      Store(Store(hdr, 3, AsU8(Shr(Len(self.data), 8))),
                            4, AsU8(Len(self.data))),
                      5, self.data)
             ELSE hdr

HapResponse_write_into_CheckAfterHeader(self, buffer) ==
    LET hdr == HapResponse_write_header(self, WriteState([kind |-> "Ok"], buffer))
    IN  IF HapResponse_size(self) > Len(buffer)
        THEN WriteState(Err("InsufficientBuffer", 0), hdr.buffer)
        ELSE IF Len(self.data) > U16_MAX
        THEN WriteState(Panic("Data for HapResponse has to be < u16::MAX"), buffer)
        ELSE HapResponse_write_body(self, hdr)

HapResponse_write_into(self, buffer) ==
    IF HapResponse_size(self) > Len(buffer)
    THEN WriteState(Err("InsufficientBuffer", 0), buffer)
    ELSE IF Len(self.data) > U16_MAX
    THEN WriteState(Panic("Data for HapResponse has to be < u16::MAX"), buffer)
    ELSE HapResponse_write_body(self,
             HapResponse_write_header(self, WriteState([kind |-> "Ok"], buffer)))


(***************************************************************************)
(* The protocol-information service as ProtocolService::create_ble builds  *)
(* it.  The 128-bit UUIDs are those of the uuid module (HAP base UUID with *)
(* the 16-bit short form, least significant byte first).  The BLE stack    *)
(* assigns the service and characteristic handles; service_handle is the   *)
(* handle it returned for the service, and the characteristic declarations *)
(* follow the service-instance-id characteristic of HapService::new.       *)
(***************************************************************************)
HapUuid(short) == <<145, 82, 118, 187, 38, 0, 0, 128, 0, 16, 0, 0, short, 0, 0, 0>>

UUID_PROTOCOL_INFORMATION == HapUuid(162)

UUID_SERVICE_SIGNATURE == HapUuid(165)

UUID_VERSION_CHARACTERISTIC == HapUuid(55)

HapProperties_SECURE_READ == 16

GattFormat_String == 25

GattFormat_Data == 27

Unit_Unitless == 9984

Characteristic(service, characteristic, max_len) ==
    [service |-> service, characteristic |-> characteristic, max_len |-> max_len]

HapCharacteristic_build(service_handle, characteristic_handle, instance_id, uuid, hap_properties, format, characteristic_len) ==
    [characteristic |-> Characteristic(service_handle, characteristic_handle,
                                       characteristic_len),
     uuid |-> uuid,
     instance_id |-> instance_id,
     properties |-> hap_properties,
     format |-> format,
     unit |-> Unit_Unitless]

HapService_new(service_handle, uuid, max_attribute_records, instance_id) ==
    [service |-> [handle |-> service_handle,
                  max_num_attributes |-> max_attribute_records],
     uuid |-> uuid,
     instance_id |-> instance_id]

ProtocolService_create_ble(service_handle) ==
    [service |-> HapService_new(service_handle, UUID_PROTOCOL_INFORMATION, 10, 16),
     signature |-> HapCharacteristic_build(service_handle, service_handle + 3, 17,
                       UUID_SERVICE_SIGNATURE, HapProperties_SECURE_READ,
                       GattFormat_Data, 100),
     version |-> HapCharacteristic_build(service_handle, service_handle + 6, 18,
                       UUID_VERSION_CHARACTERISTIC, HapProperties_SECURE_READ,
                       GattFormat_String, 100)]

Service_contains_handle_Inclusive(self, handle) ==
    self.handle <= handle /\ handle <= self.handle + self.max_num_attributes

\* Service::contains_handle
Service_contains_handle(self, handle) ==
    self.handle <= handle /\ handle < self.handle + self.max_num_attributes

\* ProtocolService::contains_handle, through HapService::contains_handle
ProtocolService_contains_handle(self, handle) ==
    Service_contains_handle(self.service.service, handle)

(***************************************************************************)
(* The TLV codec (module tlv of homekit-ble): an item is one type byte,    *)
(* one length byte and the value; an integer value is its little-endian    *)
(* bytes.  write_into stores the item at the start of the slice it is      *)
(* given and returns the number of bytes written.  A body under            *)
(* construction is [kind, buffer, offset]; a store outside the buffer      *)
(* panics.                                                                 *)
(***************************************************************************)
U16ToLeBytes(v) == <<v % 256, (v \div 256) % 256>>

Tlv_new(type, value) == [type |-> type, value |-> value]

Tlv_new_u16(type, value) == Tlv_new(type, U16ToLeBytes(value))

Tlv_encoding(tlv) == <<tlv.type, Len(tlv.value)>> \o tlv.value

\* offset += tlv.write_into(&mut response_data[offset..])
Tlv_write_into(tlv, st) ==
    IF st.kind # "Ok" THEN st
    ELSE IF st.offset + Len(Tlv_encoding(tlv)) > Len(st.buffer)
    THEN [st EXCEPT !.kind = "Panic"]
    ELSE [kind |-> "Ok",
          buffer |-> SubSeq(st.buffer, 1, st.offset) \o Tlv_encoding(tlv)
                       \o SubSeq(st.buffer, st.offset + Len(Tlv_encoding(tlv)) + 1,
                                 Len(st.buffer)),
          offset |-> st.offset + Len(Tlv_encoding(tlv))]

Zeroes(n) == [i \in 1..n |-> 0]

(***************************************************************************)
(* Characteristic::set_value up to its perform_command: the length check,  *)
(* then the update_characteristic_value command for the characteristic.    *)
(***************************************************************************)
UpdateCharacteristicValue(service_handle, characteristic_handle, value) ==
    [name |-> "update_characteristic_value", service_handle |-> service_handle,
     characteristic_handle |-> characteristic_handle, offset |-> 0, value |-> value]

Characteristic_set_value(self, value) ==
    IF Len(value) > self.max_len THEN [kind |-> "Err"]
    ELSE [kind |-> "Command",
          command |-> UpdateCharacteristicValue(self.service, self.characteristic, value)]

\* HapCharacteristic::set_value
HapCharacteristic_set_value(self, value) ==
    Characteristic_set_value(self.characteristic, value)

(***************************************************************************)
(* ProtocolService::handle_attribute_modified, up to the point where it    *)
(* blocks in perform_command.  What it does is one of                      *)
(*   Return(r)      it returns r without issuing a command,                *)
(*   Panic(m)       an expect or assertion fails,                          *)
(*   SetValue(c)    it issues command c and waits for its completion; it   *)
(*                  returns Ok(()) when set_value returns Ok and panics in *)
(*                  the expect otherwise.                                  *)
(***************************************************************************)
Return(r) == [kind |-> "Return", result |-> r]

SetValue(c) == [kind |-> "SetValue", command |-> c]

\* response.write_into(&mut resp_buff).expect(..);
\* self.signature.set_value(&resp_buff[..response.size()]).expect(..)
WriteResponse(characteristic, response, resp_buff_len) ==
    LET written == HapResponse_write_into(response, Zeroes(resp_buff_len))
    IN  IF written.result.kind # "Ok"
        THEN Panic("Failed to build HAP Response")
        ELSE LET set == HapCharacteristic_set_value(characteristic,
                            SubSeq(written.buffer, 1, HapResponse_size(response)))
             IN  IF set.kind = "Err" THEN Panic("Failed to set value")
                 ELSE SetValue(set.command)

ServiceSignatureResponseData == <<15, 2, 4, 0, 16, 0>>

HandleServiceSignatureRead_ToVersion(self, pdu) ==
    IF pdu.char_id = self.service.instance_id
    THEN WriteResponse(self.version,
             HapResponse_new(pdu.tid, "Success", ServiceSignatureResponseData), 50)
    ELSE Return("Ok")

HandleServiceSignatureRead_OwnIdsAnswered(self, pdu) ==
    IF pdu.char_id \in {self.service.instance_id, self.signature.instance_id,
                        self.version.instance_id}
    THEN WriteResponse(self.signature,
             HapResponse_new(pdu.tid, "Success", ServiceSignatureResponseData), 50)
    ELSE Return("Ok")

HandleServiceSignatureRead_SmallFrame(self, pdu) ==
    IF pdu.char_id = self.service.instance_id
    THEN WriteResponse(self.signature,
             HapResponse_new(pdu.tid, "Success", ServiceSignatureResponseData), 10)
    ELSE Return("Ok")

HandleServiceSignatureRead(self, pdu) ==
    IF pdu.char_id = self.service.instance_id
    THEN WriteResponse(self.signature,
             HapResponse_new(pdu.tid, "Success", ServiceSignatureResponseData), 50)
    ELSE Return("Ok")

GattFormatDescriptor_UnitAtThree(characteristic) ==
    LET g0 == [Zeroes(7) EXCEPT ![1] = characteristic.format]
        unit == U16ToLeBytes(characteristic.unit)
        g1 == [g0 EXCEPT ![4] = unit[1], ![5] = unit[2]]
    IN  [g1 EXCEPT ![6] = 1]

\* the 7-byte GATT format descriptor
GattFormatDescriptor(characteristic) ==
    LET g0 == [Zeroes(7) EXCEPT ![1] = characteristic.format]
        unit == U16ToLeBytes(characteristic.unit)
        g1 == [g0 EXCEPT ![3] = unit[1], ![4] = unit[2]]
    IN  [g1 EXCEPT ![5] = 1]

CharacteristicSignatureBody_ServiceTypeFirst(self, characteristic) ==
    LET st0 == [kind |-> "Ok", buffer |-> Zeroes(53), offset |-> 0]
        st1 == Tlv_write_into(Tlv_new(4, characteristic.uuid), st0)
        st2 == Tlv_write_into(Tlv_new(6, self.service.uuid), st1)
        st3 == Tlv_write_into(Tlv_new_u16(7, self.service.instance_id), st2)
        st4 == Tlv_write_into(Tlv_new_u16(10, characteristic.properties), st3)
    IN  Tlv_write_into(Tlv_new(12, GattFormatDescriptor(characteristic)), st4)

CharacteristicSignatureBody(self, characteristic) ==
    LET st0 == [kind |-> "Ok", buffer |-> Zeroes(53), offset |-> 0]
        st1 == Tlv_write_into(Tlv_new(4, characteristic.uuid), st0)
        st2 == Tlv_write_into(Tlv_new_u16(7, self.service.instance_id), st1)
        st3 == Tlv_write_into(Tlv_new(6, self.service.uuid), st2)
        st4 == Tlv_write_into(Tlv_new_u16(10, characteristic.properties), st3)
    IN  Tlv_write_into(Tlv_new(12, GattFormatDescriptor(characteristic)), st4)

HandleCharacteristicSignatureRead_LowByteOnly(self, pdu) ==
    IF pdu.char_id % 256 # self.signature.instance_id
        /\ pdu.char_id % 256 # self.version.instance_id
    THEN Return("Err")
    ELSE LET characteristic == IF pdu.char_id % 256 = self.signature.instance_id
                               THEN self.signature ELSE self.version
             body == CharacteristicSignatureBody(self, characteristic)
         IN  WriteResponse(self.signature,
                 HapResponse_new(pdu.tid, "Success", body.buffer), 70)

HandleCharacteristicSignatureRead_ToAddressed(self, pdu) ==
    IF pdu.char_id # self.signature.instance_id /\ pdu.char_id # self.version.instance_id
    THEN Return("Err")
    ELSE LET characteristic == IF pdu.char_id = self.signature.instance_id
                               THEN self.signature ELSE self.version
             body == CharacteristicSignatureBody(self, characteristic)
         IN  WriteResponse(characteristic,
                 HapResponse_new(pdu.tid, "Success", body.buffer), 70)

HandleCharacteristicSignatureRead(self, pdu) ==
    IF pdu.char_id # self.signature.instance_id /\ pdu.char_id # self.version.instance_id
    THEN Return("Err")
    ELSE LET characteristic == IF pdu.char_id = self.signature.instance_id
                               THEN self.signature ELSE self.version
             body == CharacteristicSignatureBody(self, characteristic)
         IN  IF body.kind # "Ok" THEN Panic("range start index out of range")
             ELSE IF body.offset # Len(body.buffer)
             THEN Panic("Error creating HAP response PDU")
             ELSE WriteResponse(self.signature,
                      HapResponse_new(pdu.tid, "Success", body.buffer), 70)

ProtocolService_handle_attribute_modified_ReadAnswered(self, data) ==
    LET pdu == HapPdu_parse(data)
    IN  CASE pdu.kind = "Panic" -> pdu
          [] pdu.kind = "Request" ->
                CASE pdu.op_code = "ServiceSignatureRead" ->
                         HandleServiceSignatureRead(self, pdu)
                  [] pdu.op_code \in {"CharacteristicSignatureRead", "CharacteristicRead"} ->
                         HandleCharacteristicSignatureRead(self, pdu)
                  [] OTHER -> Return("Ok")
          [] OTHER -> Return("Ok")

ProtocolService_handle_attribute_modified(self, data) ==
    LET pdu == HapPdu_parse(data)
    IN  CASE pdu.kind = "Panic" -> pdu
          [] pdu.kind = "Request" ->
                CASE pdu.op_code = "ServiceSignatureRead" ->
                         HandleServiceSignatureRead(self, pdu)
                  [] pdu.op_code = "CharacteristicSignatureRead" ->
                         HandleCharacteristicSignatureRead(self, pdu)
                  [] OTHER -> Return("Ok")
          [] OTHER -> Return("Ok")

(***************************************************************************)
(* The buffers handed to HapPdu::parse: every prefix, up to MaxBufLen      *)
(* bytes, of control byte, opcode byte, transaction id, instance id (low,  *)
(* high) and trailing bytes.  Every control byte is combined with the      *)
(* opcode bytes around the valid range, and every opcode byte with the     *)
(* control bytes that denote a request; test_parsing_service_signature_pdu *)
(* adds its 16-byte buffer.                                                *)
(***************************************************************************)
Buffer(c, o, t, lo, hi, tail, n) ==
    [i \in 1..n |->
        CASE i = 1 -> c
          [] i = 2 -> o
          [] i = 3 -> t
          [] i = 4 -> lo
          [] i = 5 -> hi
          [] OTHER -> tail]

TidBytes == {1, 255}

IidLowBytes == {16, 18}

IidHighBytes == {0, 1}

TailBytes == {0, 170}

ControlOpCodePairs ==
    ((0..255) \X ((0..9) \cup {255})) \cup ({0, 1, 16} \X (0..255))

TestVector == <<0, 6, 1, 16, 0, 0, 0, 0, 0, 0, 0, 0, 0, 0, 0, 0>>

IsParseInput(data) ==
    \/ \E co \in ControlOpCodePairs, t \in TidBytes, lo \in IidLowBytes,
          hi \in IidHighBytes, tail \in TailBytes, n \in 0..MaxBufLen :
          data = Buffer(co[1], co[2], t, lo, hi, tail, n)
    \/ data = TestVector

(***************************************************************************)
(* The responses and output buffers handed to HapResponse::write_into:     *)
(* every body of up to MaxBodyLen bytes with every status, and bodies      *)
(* whose length needs the second length byte (up to and one past the       *)
(* protocol limit of U16_MAX bytes);                                       *)
(* output buffers from empty to MaxSlack bytes more than size(), filled    *)
(* with a byte the writer never stores.                                    *)
(***************************************************************************)
BodyBytes == {0, 90, 255}

ShortBodies == UNION { [1..n -> BodyBytes] : n \in 0..MaxBodyLen }

LongBody(n) == [i \in 1..n |-> (7 * i) % 256]

LongBodies == { LongBody(n) : n \in {255, 256, 258, U16_MAX, U16_MAX + 1} }

FillBytes == {0, 238}

FilledBuffer(n, fill) == [i \in 1..n |-> fill]

IsWriteInput(resp, buffer) ==
    \/ \E t \in {0, 1, 255}, s \in HapStatusValues, b \in ShortBodies,
          n \in 0..(5 + MaxBodyLen + MaxSlack), f \in FillBytes :
          /\ resp = HapResponse_new(t, s, b)
          /\ buffer = FilledBuffer(n, f)
    \/ \E s \in {"Success", "InvalidRequest"}, b \in LongBodies, d \in 0..(MaxSlack + 1) :
          /\ resp = HapResponse_new(255, s, b)
          /\ buffer = FilledBuffer(Len(b) + 5 + d - 1, 238)

(***************************************************************************)
(* The firmware after run has initialised GAP, GATT and HomeKit, at the    *)
(* top of its event loop.  ServiceHandles are the handles the stack may    *)
(* have given the protocol-information service.                            *)
(***************************************************************************)
IdleParse ==
    /\ parse_in = <<>>
    /\ parse_out = NotCalled

IdleWrite ==
    /\ wr_resp = HapResponse_new(0, "Success", <<>>)
    /\ wr_before = <<>>
    /\ wr_buffer = <<>>
    /\ wr_result = NotCalled

\* the firmware before run has created the accessory
IdleFirmware ==
    /\ protocol_service = [created |-> FALSE]
    /\ pc = "boot"
    /\ command = [name |-> "none"]
    /\ dispatch = [event |-> [type |-> "none"], called |-> FALSE, writes |-> <<>>,
                   result |-> "None"]
    /\ gatt_value = <<>>
    /\ command_response = [type |-> "none"]

ServiceHandles == {12, 42}

NoCommand == [name |-> "none"]

NoEvent == [type |-> "none"]

Dispatch(event, called, writes, result) ==
    [event |-> event, called |-> called, writes |-> writes, result |-> result]

InitFirmware ==
    /\ \E service_handle \in ServiceHandles :
          /\ protocol_service = ProtocolService_create_ble(service_handle)
          /\ gatt_value = [h \in {service_handle + 3, service_handle + 6} |-> <<>>]
    /\ pc = "run_loop"
    /\ command = NoCommand
    /\ dispatch = Dispatch(NoEvent, FALSE, <<>>, "None")
    /\ command_response = NoEvent

(***************************************************************************)
(* The events receive_event may return.  FirmwarePayloads are the payloads *)
(* of attribute writes: requests of every opcode to the ids of the         *)
(* service, of its characteristics and to foreign ids, requests under      *)
(* every single control bit, and malformed and over-long buffers.          *)
(***************************************************************************)
FirmwarePayloads ==
    { Buffer(0, o, t, lo, hi, 0, 5) :
        o \in {1, 6}, t \in {0, 255}, lo \in {16, 17, 18, 19}, hi \in {0, 1} }
    \cup { Buffer(0, o, 255, lo, 0, 0, 5) :
            o \in {2, 3, 4, 5, 7, 8}, lo \in {16, 17, 18, 19} }
    \cup { Buffer(c, 6, 7, 16, 0, 0, 5) : c \in {1, 2, 4, 8, 16, 32, 64, 128, 132} }
    \cup { Buffer(c, 1, 7, 17, 0, 0, 5) : c \in {1, 2, 4, 8, 16, 32, 64, 128, 132} }
    \cup { <<>>, <<0>>, <<0, 6>>, <<0, 6, 1, 16>>, <<0, 0, 1, 16, 0>>,
           <<0, 9, 1, 16, 0>>, <<0, 255, 1, 17, 0>> }
    \cup { TestVector, Buffer(0, 1, 9, 18, 0, 170, MaxBufLen) }

\* <<handle, payload>> of the attribute writes: every payload written to the
\* value handle of the signature characteristic, and a request for the
\* service, a request for a characteristic and a malformed buffer written to
\* the handles at and next to both ends of the service's range
AttributeWrites(self) ==
    LET h == self.service.service.handle
    IN  ({h + 4} \X FirmwarePayloads)
        \cup ({h - 1, h, h + 9, h + 10}
                 \X {Buffer(0, 6, 255, 16, 0, 0, 5), Buffer(0, 1, 255, 18, 0, 0, 5),
                     <<0, 6>>, Buffer(128, 6, 255, 16, 0, 0, 5)})

GattAttributeModified(attr_handle, data) ==
    [type |-> "GattAttributeModified", attr_handle |-> attr_handle, data |-> data]

IgnoredEvents ==
    { [type |-> "VendorOther"], [type |-> "CommandComplete"],
      [type |-> "NonVendorOther"], [type |-> "ReadError"] }

(***************************************************************************)
(* run's loop: an attribute write.  HapAccessory::handle_event calls       *)
(* handle_attribute_modified when the handle is the service's, and panics  *)
(* in its expect when that returns Err.  The action ends where the         *)
(* firmware next blocks on receive_event: in run again, or in the          *)
(* perform_command of set_value after it has sent the command (the stack   *)
(* then holds the new value).                                              *)
(***************************************************************************)
\* a dispatcher that keeps state: each answered request exchanges its two
\* characteristic descriptors
HandleEvent_GattAttributeModified_Remembering(writes) ==
    /\ pc = "run_loop"
    /\ \E write \in writes :
          LET attr_handle == write[1]
              data == write[2]
              event == GattAttributeModified(attr_handle, data)
              did == ProtocolService_handle_attribute_modified(protocol_service, data)
          IN  IF ~ProtocolService_contains_handle(protocol_service, attr_handle)
              THEN /\ dispatch' = Dispatch(event, FALSE, <<>>, "None")
                   /\ UNCHANGED <<pc, command, gatt_value, protocol_service>>
              ELSE CASE did.kind = "SetValue" ->
                          /\ dispatch' = Dispatch(event, TRUE, <<did.command>>, "Pending")
                          /\ pc' = "perform_command"
                          /\ command' = did.command
                          /\ protocol_service' =
                                [protocol_service EXCEPT
                                    !.signature = protocol_service.version,
                                    !.version = protocol_service.signature]
                          /\ gatt_value' = [gatt_value EXCEPT
                                 ![did.command.characteristic_handle] = did.command.value]
                     [] did.kind = "Return" /\ did.result = "Ok" ->
                          /\ dispatch' = Dispatch(event, TRUE, <<>>, "Ok")
                          /\ UNCHANGED <<pc, command, gatt_value, protocol_service>>
                     [] did.kind = "Return" /\ did.result = "Err" ->
                          /\ dispatch' = Dispatch(event, TRUE, <<>>, "Err")
                          /\ pc' = "panicked"
                          /\ UNCHANGED <<command, gatt_value, protocol_service>>
                     [] did.kind = "Panic" ->
                          /\ dispatch' = Dispatch(event, TRUE, <<>>, "Panic")
                          /\ pc' = "panicked"
                          /\ UNCHANGED <<command, gatt_value, protocol_service>>
    /\ UNCHANGED <<command_response, codec_vars>>

HandleEvent_GattAttributeModified(writes) ==
    /\ pc = "run_loop"
    /\ \E write \in writes :
          LET attr_handle == write[1]
              data == write[2]
              event == GattAttributeModified(attr_handle, data)
              did == ProtocolService_handle_attribute_modified(protocol_service, data)
          IN  IF ~ProtocolService_contains_handle(protocol_service, attr_handle)
              THEN /\ dispatch' = Dispatch(event, FALSE, <<>>, "None")
                   /\ UNCHANGED <<pc, command, gatt_value>>
              ELSE CASE did.kind = "SetValue" ->
                          /\ dispatch' = Dispatch(event, TRUE, <<did.command>>, "Pending")
                          /\ pc' = "perform_command"
                          /\ command' = did.command
                          /\ gatt_value' = [gatt_value EXCEPT
                                 ![did.command.characteristic_handle] = did.command.value]
                     [] did.kind = "Return" /\ did.result = "Ok" ->
                          /\ dispatch' = Dispatch(event, TRUE, <<>>, "Ok")
                          /\ UNCHANGED <<pc, command, gatt_value>>
                     [] did.kind = "Return" /\ did.result = "Err" ->
                          /\ dispatch' = Dispatch(event, TRUE, <<>>, "Err")
                          /\ pc' = "panicked"
                          /\ UNCHANGED <<command, gatt_value>>
                     [] did.kind = "Panic" ->
                          /\ dispatch' = Dispatch(event, TRUE, <<>>, "Panic")
                          /\ pc' = "panicked"
                          /\ UNCHANGED <<command, gatt_value>>
    /\ UNCHANGED <<protocol_service, command_response, codec_vars>>

RunLoop_AttributeModified ==
    HandleEvent_GattAttributeModified(AttributeWrites(protocol_service))

\* run's loop: an AttReadPermitRequest; handle_event sends allow_read
RunLoop_AttReadPermitRequest ==
    /\ pc = "run_loop"
    /\ \E conn_handle \in {1} :
          /\ dispatch' = Dispatch([type |-> "AttReadPermitRequest",
                                   conn_handle |-> conn_handle], FALSE, <<>>, "None")
          /\ command' = [name |-> "allow_read", conn_handle |-> conn_handle]
    /\ pc' = "perform_command"
    /\ UNCHANGED <<protocol_service, gatt_value, command_response, codec_vars>>

\* run's loop: any other event, or a read error, is ignored
RunLoop_Ignored ==
    /\ pc = "run_loop"
    /\ \E event \in IgnoredEvents : dispatch' = Dispatch(event, FALSE, <<>>, "None")
    /\ UNCHANGED <<protocol_service, pc, command, gatt_value, command_response, codec_vars>>

\* perform_command receives CommandComplete: it returns Ok, and so do
\* set_value and handle_attribute_modified
PerformCommand_Complete ==
    /\ pc = "perform_command"
    /\ command_response' = [type |-> "CommandComplete"]
    /\ pc' = "run_loop"
    /\ command' = NoCommand
    /\ dispatch' = IF dispatch.result = "Pending"
                   THEN [dispatch EXCEPT !.result = "Ok"] ELSE dispatch
    /\ UNCHANGED <<protocol_service, gatt_value, codec_vars>>

\* what receive_event may return inside perform_command other than the
\* completion of the command: the queue is the one run reads, so the next
\* attribute write or read request of the peer may be at its head
OtherResponses(self) ==
    (IgnoredEvents \ {[type |-> "CommandComplete"]})
    \cup {[type |-> "AttReadPermitRequest", conn_handle |-> 1]}
    \cup { GattAttributeModified(self.service.service.handle + 4, data) :
             data \in {TestVector, Buffer(0, 1, 255, 18, 0, 0, 5)} }

\* a perform_command that hands the event it received to handle_event, as
\* run does, instead of failing on it
PerformCommand_Failed_Redispatch ==
    /\ pc = "perform_command"
    /\ \E event \in OtherResponses(protocol_service) :
          /\ command_response' = event
          /\ IF event.type = "GattAttributeModified"
             THEN LET did == ProtocolService_handle_attribute_modified(
                                 protocol_service, event.data)
                  IN  /\ dispatch' = Dispatch(event, TRUE, <<did.command>>, "Pending")
                      /\ command' = did.command
                      /\ pc' = "perform_command"
             ELSE /\ pc' = "panicked"
                  /\ command' = NoCommand
                  /\ dispatch' = IF dispatch.result = "Pending"
                                 THEN [dispatch EXCEPT !.result = "Panic"]
                                 ELSE dispatch
    /\ UNCHANGED <<protocol_service, gatt_value, codec_vars>>

\* perform_command receives anything else: it unwraps a read error or
\* returns Err, and the caller's expect panics
PerformCommand_Failed ==
    /\ pc = "perform_command"
    /\ \E event \in OtherResponses(protocol_service) : command_response' = event
    /\ pc' = "panicked"
    /\ command' = NoCommand
    /\ dispatch' = IF dispatch.result = "Pending"
                   THEN [dispatch EXCEPT !.result = "Panic"] ELSE dispatch
    /\ UNCHANGED <<protocol_service, gatt_value, codec_vars>>

Init ==
    /\ InitFirmware
    /\ IdleParse
    /\ IdleWrite

Next ==
    \/ RunLoop_AttributeModified
    \/ RunLoop_AttReadPermitRequest
    \/ RunLoop_Ignored
    \/ PerformCommand_Complete
    \/ PerformCommand_Failed

Spec == Init /\ [][Next]_vars

(***************************************************************************)
(* SpecParse: HapPdu::parse applied to every buffer of ParseInputs.        *)
(***************************************************************************)
InitParse ==
    /\ IsParseInput(parse_in)
    /\ parse_out = NotCalled
    /\ IdleWrite
    /\ IdleFirmware

Parse ==
    /\ parse_out = NotCalled
    /\ parse_out' = HapPdu_parse(parse_in)
    /\ UNCHANGED <<parse_in, wr_resp, wr_before, wr_buffer, wr_result>>
    /\ UNCHANGED firmware_vars

NextParse == Parse

SpecParse == InitParse /\ [][NextParse]_vars

(***************************************************************************)
(* SpecWrite: HapResponse::write_into applied to every pair of             *)
(* WriteInputs.                                                            *)
(***************************************************************************)
InitWrite ==
    /\ IsWriteInput(wr_resp, wr_before)
    /\ wr_buffer = wr_before
    /\ wr_result = NotCalled
    /\ IdleParse
    /\ IdleFirmware

WriteInto ==
    /\ wr_result = NotCalled
    /\ LET st == HapResponse_write_into(wr_resp, wr_buffer)
       IN  /\ wr_buffer' = st.buffer
           /\ wr_result' = st.result
    /\ UNCHANGED <<parse_in, parse_out, wr_resp, wr_before>>
    /\ UNCHANGED firmware_vars

NextWrite == WriteInto

SpecWrite == InitWrite /\ [][NextWrite]_vars


(***************************************************************************)
(* Properties of HapPdu::parse (SpecParse).                                *)
(***************************************************************************)
ParseCalled == parse_out.kind # "NotCalled"

ControlByte == parse_in[1]

Bit(x, n) == (x \div 2^n) % 2

WireOpCodes ==
    <<"CharacteristicSignatureRead", "CharacteristicWrite", "CharacteristicRead",
      "CharacteristicTimedWrite", "CharacteristicExecuteWrite", "ServiceSignatureRead",
      "CharacteristicConfiguration", "ProtocolConfiguration">>

\* C1: a buffer of at least 5 bytes with control byte 0 and opcode byte in
\* 1..8 parses to a Request with the opcode mapped from byte 1, tid = byte 2
\* and char_id = byte 3 + 256 * byte 4; later bytes do not change the result.
C1_ParseRecoversRequest ==
    (ParseCalled /\ Len(parse_in) >= 5 /\ ControlByte = 0 /\ parse_in[2] \in 1..8)
    => parse_out = HapRequest("Bit16", WireOpCodes[parse_in[2]], parse_in[3],
                              parse_in[4] + 256 * parse_in[5])

C1_Witness ==
    /\ ParseCalled
    /\ Len(parse_in) = 6
    /\ ControlByte = 0
    /\ parse_in[2] = 3
    /\ parse_in[5] = 1
    /\ parse_out.kind = "Request"
    /\ parse_out.char_id = 256 + parse_in[4]

\* C2: parse returns a Request only if the control byte has bit 7 = 0,
\* bit 1 = 0 and the reserved bits 2-3 and bit 0 all zero.
C2_RequestOnlyWithReservedBitsZero ==
    (ParseCalled /\ parse_out.kind = "Request")
    => /\ Bit(ControlByte, 7) = 0
       /\ Bit(ControlByte, 1) = 0
       /\ Bit(ControlByte, 2) = 0
       /\ Bit(ControlByte, 3) = 0
       /\ Bit(ControlByte, 0) = 0

\* C3: a non-empty buffer whose control byte has bit 2 or bit 3 set yields
\* Err(UnsupportedPduType((control & 0b1110) >> 1)), whatever its other bits
\* (bit 7 and bit 1 included) and its length.
C3_ReservedTypeBitsGiveUnsupportedPduType ==
    (ParseCalled /\ Len(parse_in) > 0
        /\ (Bit(ControlByte, 2) = 1 \/ Bit(ControlByte, 3) = 1))
    => parse_out = Err("UnsupportedPduType", (ControlByte \div 2) % 8)

\* C4: a buffer whose control byte has bit 7 set (continuation) is rejected
\* with the error value UnsupportedPduType; parse neither returns a Request
\* nor aborts.
C4_ContinuationIsAnErrorValue ==
    (ParseCalled /\ Len(parse_in) > 0 /\ Bit(ControlByte, 7) = 1)
    => /\ parse_out.kind = "Err"
       /\ parse_out.err = "UnsupportedPduType"

\* C5: a request buffer (control byte 0, at least 4 bytes after it) whose
\* opcode byte v is outside 1..8 yields Err(UnknownOpCode(v)); OpCode::try_from
\* is Ok exactly for 1..8.
C5_UnknownOpCodeCarriesByte ==
    /\ (ParseCalled /\ Len(parse_in) >= 5 /\ ControlByte = 0 /\ parse_in[2] \notin 1..8)
       => parse_out = Err("UnknownOpCode", parse_in[2])
    /\ (ParseCalled /\ Len(parse_in) >= 2)
       => ((OpCode_try_from(parse_in[2]).kind = "Ok") <=> (parse_in[2] \in 1..8))

C5_Witness ==
    /\ ParseCalled
    /\ Len(parse_in) = 5
    /\ ControlByte = 0
    /\ parse_in[2] = 9
    /\ parse_out = Err("UnknownOpCode", 9)

\* C6: the empty buffer, and every buffer of 1..4 bytes whose control byte
\* denotes an unfragmented request with reserved type bits zero, yields
\* Err(BadLength) whatever the bytes: the length check precedes the opcode
\* check.
C6_ShortBufferIsBadLength ==
    (ParseCalled
        /\ \/ Len(parse_in) = 0
           \/ /\ Len(parse_in) \in 1..4
              /\ Bit(ControlByte, 7) = 0
              /\ Bit(ControlByte, 1) = 0
              /\ Bit(ControlByte, 2) = 0
              /\ Bit(ControlByte, 3) = 0)
    => parse_out = Err("BadLength", 0)

C6_Witness ==
    /\ ParseCalled
    /\ Len(parse_in) = 4
    /\ ControlByte = 0
    /\ parse_in[2] = 255
    /\ parse_out = Err("BadLength", 0)

(***************************************************************************)
(* Properties of HapResponse::write_into (SpecWrite).                      *)
(***************************************************************************)
WriteCalled == wr_result.kind # "NotCalled"

WireStatus ==
    [st \in HapStatusValues |->
        CASE st = "Success" -> 0
          [] st = "UnsupportedPdu" -> 1
          [] st = "MaxProcedures" -> 2
          [] st = "InsufficientAuthorization" -> 3
          [] st = "InvalidInstanceId" -> 4
          [] st = "InsufficientAuthentication" -> 5
          [] st = "InvalidRequest" -> 6]

RequiredCapacity(body) == IF Len(body) = 0 THEN 3 ELSE 3 + 2 + Len(body)

ExpectedFrame(tid, status, body) ==
    <<2, tid, WireStatus[status]>>
        \o (IF Len(body) = 0 THEN <<>>
            ELSE <<Len(body) % 256, Len(body) \div 256>> \o body)

\* C7: for a body of at most 65535 bytes, size() is 3 for the empty body and
\* 3 + 2 + len otherwise, and write_into on a buffer of exactly size() bytes
\* succeeds and leaves 2, T, the wire value of S and, for a non-empty body,
\* the little-endian 16-bit length followed by the body.
C7_WriteIntoExactBuffer ==
    (WriteCalled /\ Len(wr_resp.data) <= 65535)
    => /\ HapResponse_size(wr_resp) = RequiredCapacity(wr_resp.data)
       /\ Len(wr_before) = RequiredCapacity(wr_resp.data)
          => /\ wr_result.kind = "Ok"
             /\ wr_buffer = ExpectedFrame(wr_resp.tid, wr_resp.status, wr_resp.data)

C7_Witness ==
    /\ WriteCalled
    /\ Len(wr_resp.data) = 258
    /\ Len(wr_before) = 263
    /\ wr_result.kind = "Ok"
    /\ wr_buffer[4] = 2
    /\ wr_buffer[5] = 1

\* C8: write_into on a buffer shorter than size() returns
\* Err(InsufficientBuffer) and leaves every byte of the buffer unchanged.
C8_ShortBufferUntouched ==
    (WriteCalled /\ Len(wr_before) < RequiredCapacity(wr_resp.data))
    => /\ wr_result = Err("InsufficientBuffer", 0)
       /\ wr_buffer = wr_before

C8_Witness ==
    /\ WriteCalled
    /\ Len(wr_resp.data) = 2
    /\ Len(wr_before) = RequiredCapacity(wr_resp.data) - 1
    /\ wr_before[1] = 238
    /\ wr_result = Err("InsufficientBuffer", 0)


(***************************************************************************)
(* SpecAnyTid: the event loop fed with the requests the dispatcher         *)
(* answers, under every transaction id, written to the value handle of the *)
(* signature characteristic; each one follows any other.                   *)
(***************************************************************************)
AllTidBytes == 0..255

AnyTidPayloads ==
    { Buffer(0, 6, t, 16, 0, 0, 5) : t \in AllTidBytes }
    \cup { Buffer(0, 1, t, 17, 0, 0, 5) : t \in AllTidBytes }
    \cup { Buffer(0, 1, t, 18, 0, 0, 5) : t \in {0, 128, 255} }

AnyTidWrites(self) == {self.service.service.handle + 4} \X AnyTidPayloads

RunLoop_AttributeModified_AnyTid ==
    HandleEvent_GattAttributeModified(AnyTidWrites(protocol_service))

NextAnyTid ==
    \/ RunLoop_AttributeModified_AnyTid
    \/ PerformCommand_Complete
    \/ PerformCommand_Failed

SpecAnyTid == Init /\ [][NextAnyTid]_vars

(***************************************************************************)
(* Properties of the dispatcher (Spec).                                    *)
(***************************************************************************)
\* the request handle_attribute_modified parsed from the event's payload
DispatchedPdu == HapPdu_parse(dispatch.event.data)

IsDispatchedRequest(op_code) ==
    /\ dispatch.called
    /\ DispatchedPdu.kind = "Request"
    /\ DispatchedPdu.op_code = op_code

SignatureHandles == protocol_service.signature.characteristic

VersionHandles == protocol_service.version.characteristic

\* C9: a ServiceSignatureRead request with transaction id T for the
\* service's instance id 0x10 causes exactly one set-value write, to the
\* signature characteristic, of the bytes
\* [0x02, T, 0x00, 0x06, 0x00, 0x0f, 0x02, 0x04, 0x00, 0x10, 0x00].
C9_ServiceSignatureReadAnswer ==
    (IsDispatchedRequest("ServiceSignatureRead") /\ DispatchedPdu.char_id = 16)
    => /\ Len(dispatch.writes) = 1
       /\ dispatch.writes[1].name = "update_characteristic_value"
       /\ dispatch.writes[1].service_handle = SignatureHandles.service
       /\ dispatch.writes[1].characteristic_handle = SignatureHandles.characteristic
       /\ dispatch.writes[1].characteristic_handle # VersionHandles.characteristic
       /\ dispatch.writes[1].value
            = <<2, DispatchedPdu.tid, 0, 6, 0, 15, 2, 4, 0, 16, 0>>

C9_Witness ==
    /\ dispatch.called
    /\ dispatch.event.data = TestVector
    /\ dispatch.result = "Ok"
    /\ pc = "run_loop"
    /\ Len(dispatch.writes) = 1
    /\ gatt_value[SignatureHandles.characteristic] = <<2, 1, 0, 6, 0, 15, 2, 4, 0, 16, 0>>

AddressedCharacteristic ==
    IF DispatchedPdu.char_id = 17 THEN protocol_service.signature
    ELSE protocol_service.version

\* C10: a CharacteristicSignatureRead for the signature (0x11) or version
\* (0x12) characteristic is answered with status success and a 53-byte body
\* made of five TLV items (type, one length byte, value) in this order: 0x04
\* the characteristic's UUID, 0x07 the service's instance id (2 bytes LE),
\* 0x06 the service's UUID, 0x0a the characteristic's HAP properties (2
\* bytes LE), 0x0C a 7-byte GATT format descriptor.
C10_CharacteristicSignatureBody ==
    (IsDispatchedRequest("CharacteristicSignatureRead")
        /\ DispatchedPdu.char_id \in {17, 18})
    => /\ Len(dispatch.writes) = 1
       /\ LET value == dispatch.writes[1].value
              body == SubSeq(value, 6, Len(value))
              iid == protocol_service.service.instance_id
              properties == AddressedCharacteristic.properties
          IN  /\ SubSeq(value, 1, 5) = <<2, DispatchedPdu.tid, 0, 53, 0>>
              /\ Len(body) = 53
              /\ SubSeq(body, 1, 44)
                   = <<4, 16>> \o AddressedCharacteristic.uuid
                       \o <<7, 2, iid % 256, iid \div 256>>
                       \o <<6, 16>> \o protocol_service.service.uuid
                       \o <<10, 2, properties % 256, properties \div 256>>
              /\ body[45] = 12
              /\ body[46] = 7

C10_Witness ==
    /\ IsDispatchedRequest("CharacteristicSignatureRead")
    /\ DispatchedPdu.char_id = 18
    /\ dispatch.result = "Ok"
    /\ Len(dispatch.writes) = 1
    /\ SubSeq(dispatch.writes[1].value, 6, 23) = <<4, 16>> \o UUID_VERSION_CHARACTERISTIC

\* a CharacteristicSignatureRead for one of the two owned characteristics
IsOwnedCharacteristicSignatureRead ==
    /\ IsDispatchedRequest("CharacteristicSignatureRead")
    /\ DispatchedPdu.char_id \in {17, 18}

\* the value of the fifth TLV item of the response: the last 7 bytes of the
\* 5-byte header and 53-byte body
WrittenGattFormat == SubSeq(dispatch.writes[1].value, 52, 58)

\* C11 as stated: in every CharacteristicSignatureRead response the 7-byte
\* GATT format descriptor is byte 0 = format code, bytes 1-2 = zero,
\* bytes 3-4 = unit code (little-endian), byte 5 = namespace 1, byte 6 = zero.
C11_DescriptorAsClaimed ==
    IsOwnedCharacteristicSignatureRead
    => /\ Len(dispatch.writes) = 1
       /\ LET unit == AddressedCharacteristic.unit
          IN  WrittenGattFormat
                = <<AddressedCharacteristic.format, 0, 0,
                    unit % 256, unit \div 256, 1, 0>>

\* C11 (amended): in every CharacteristicSignatureRead response the 7-byte
\* GATT format descriptor is byte 0 = format code, byte 1 = zero, bytes 2-3 =
\* unit code (little-endian), byte 4 = namespace 1, bytes 5-6 = zero.
C11_GattFormatDescriptorLayout ==
    IsOwnedCharacteristicSignatureRead
    => /\ Len(dispatch.writes) = 1
       /\ LET unit == AddressedCharacteristic.unit
          IN  WrittenGattFormat
                = <<AddressedCharacteristic.format, 0,
                    unit % 256, unit \div 256, 1, 0, 0>>

C11_Witness ==
    /\ IsOwnedCharacteristicSignatureRead
    /\ DispatchedPdu.char_id = 17
    /\ Len(dispatch.writes) = 1
    /\ WrittenGattFormat = <<27, 0, 0, 39, 1, 0, 0>>

\* C12: a CharacteristicSignatureRead whose target instance id is neither the
\* signature characteristic's nor the version characteristic's causes zero
\* set-value writes, and handle_attribute_modified returns Err for it.
C12_UnknownCharacteristicFails ==
    (IsDispatchedRequest("CharacteristicSignatureRead")
        /\ DispatchedPdu.char_id # protocol_service.signature.instance_id
        /\ DispatchedPdu.char_id # protocol_service.version.instance_id)
    => /\ dispatch.writes = <<>>
       /\ dispatch.result = "Err"
       /\ command = NoCommand

C12_Witness ==
    /\ IsDispatchedRequest("CharacteristicSignatureRead")
    /\ DispatchedPdu.char_id = 256 + 17
    /\ dispatch.writes = <<>>
    /\ dispatch.result = "Err"

\* a request the dispatcher answers: a ServiceSignatureRead for the service's
\* instance id or a CharacteristicSignatureRead for an owned characteristic
IsAnsweredRequest ==
    \/ /\ IsDispatchedRequest("ServiceSignatureRead")
       /\ DispatchedPdu.char_id = protocol_service.service.instance_id
    \/ IsOwnedCharacteristicSignatureRead

\* C13: every set-value write the dispatcher issues names the signature
\* characteristic (its service handle and its characteristic handle) and
\* never the version characteristic, whichever characteristic the request
\* was about; a request the dispatcher answers causes exactly one such
\* write, its dispatch returns Ok once the command completes, and no
\* request causes more than one write.
C13_WritesTargetSignature ==
    /\ Len(dispatch.writes) <= 1
    /\ \A i \in 1..Len(dispatch.writes) :
          /\ dispatch.writes[i].name = "update_characteristic_value"
          /\ dispatch.writes[i].service_handle = SignatureHandles.service
          /\ dispatch.writes[i].characteristic_handle = SignatureHandles.characteristic
          /\ dispatch.writes[i].characteristic_handle # VersionHandles.characteristic
    /\ gatt_value[VersionHandles.characteristic] = <<>>
    /\ IsAnsweredRequest => Len(dispatch.writes) = 1
    /\ (IsAnsweredRequest /\ pc = "run_loop") => dispatch.result = "Ok"
    /\ (dispatch.called /\ dispatch.result = "Ok" /\ Len(dispatch.writes) = 1)
         => IsAnsweredRequest

C13_Witness ==
    /\ IsOwnedCharacteristicSignatureRead
    /\ DispatchedPdu.char_id = protocol_service.version.instance_id
    /\ dispatch.result = "Ok"
    /\ Len(dispatch.writes) = 1
    /\ dispatch.writes[1].characteristic_handle = SignatureHandles.characteristic
    /\ gatt_value[SignatureHandles.characteristic] = dispatch.writes[1].value
    /\ gatt_value[VersionHandles.characteristic] = <<>>

\* C14: for every request the dispatcher answers, byte 1 of the framed
\* response written to the signature characteristic is the transaction id
\* (byte 2) of that request, for each of the 256 transaction ids and
\* whatever requests were handled before.
C14_TransactionIdEchoed ==
    IsAnsweredRequest
    => /\ Len(dispatch.writes) = 1
       /\ dispatch.writes[1].characteristic_handle = SignatureHandles.characteristic
       /\ dispatch.writes[1].value[2] = dispatch.event.data[3]
       /\ gatt_value[SignatureHandles.characteristic][2] = dispatch.event.data[3]

\* the echo of a transaction id above 127, completed
C14_Witness ==
    /\ IsAnsweredRequest
    /\ dispatch.event.data[3] = 200
    /\ dispatch.result = "Ok"
    /\ gatt_value[SignatureHandles.characteristic][2] = 200

\* a payload that is not a well-formed request of section 6: empty, shorter
\* than the 5 bytes of a request, a reserved bit (0, 2, 3), the continuation
\* bit (7) or the response type bit (1) set, or an opcode outside 1..8
IsMalformedPayload(data) ==
    \/ Len(data) < 5
    \/ BitAnd(data[1], 1 + 4 + 8) # 0
    \/ BitAnd(data[1], 128) # 0
    \/ BitAnd(data[1], 2) # 0
    \/ data[2] \notin 1..8

\* C15: for every attribute write whose payload is a malformed PDU the
\* dispatcher performs zero set-value writes, generates no response and
\* returns normally, without aborting.
C15_MalformedPduDropped ==
    (dispatch.called /\ IsMalformedPayload(dispatch.event.data))
    => /\ dispatch.writes = <<>>
       /\ dispatch.result = "Ok"
       /\ pc = "run_loop"

OtherOpCodes ==
    {"CharacteristicWrite", "CharacteristicRead", "CharacteristicTimedWrite",
     "CharacteristicExecuteWrite", "CharacteristicConfiguration",
     "ProtocolConfiguration"}

\* C16: for every well-formed request whose opcode is neither
\* ServiceSignatureRead nor CharacteristicSignatureRead (wire values 2, 3,
\* 4, 5, 7, 8), whatever its target instance id, the dispatcher performs
\* zero set-value writes, returns Ok and does not crash.
C16_OtherOpCodesIgnored ==
    (dispatch.called /\ DispatchedPdu.kind = "Request"
        /\ dispatch.event.data[2] \in {2, 3, 4, 5, 7, 8})
    => /\ DispatchedPdu.op_code \in OtherOpCodes
       /\ dispatch.writes = <<>>
       /\ dispatch.result = "Ok"
       /\ pc = "run_loop"
       /\ command = NoCommand

C16_Witness ==
    /\ IsDispatchedRequest("CharacteristicRead")
    /\ DispatchedPdu.char_id = protocol_service.version.instance_id
    /\ dispatch.writes = <<>>
    /\ dispatch.result = "Ok"
    /\ pc = "run_loop"

\* C17: for every ServiceSignatureRead whose target instance id differs from
\* the protocol-information service's instance id, the ids 0x11 and 0x12 of
\* its own characteristics included, the dispatcher performs zero set-value
\* writes and returns Ok.
C17_ForeignServiceSignatureReadIgnored ==
    (IsDispatchedRequest("ServiceSignatureRead")
        /\ DispatchedPdu.char_id # protocol_service.service.instance_id)
    => /\ dispatch.writes = <<>>
       /\ dispatch.result = "Ok"
       /\ pc = "run_loop"
       /\ command = NoCommand

C17_Witness ==
    /\ IsDispatchedRequest("ServiceSignatureRead")
    /\ DispatchedPdu.char_id = protocol_service.signature.instance_id
    /\ dispatch.writes = <<>>
    /\ dispatch.result = "Ok"
    /\ pc = "run_loop"

(***************************************************************************)
(* Properties of the response writer, continued (SpecWrite).               *)
(***************************************************************************)
\* C18: for every response whose body is longer than 65535 bytes write_into
\* ends in a fatal precondition failure, whatever the size of the output
\* buffer, buffers smaller than size() included; it returns neither Ok nor
\* a recoverable error.
C18_OverlongBodyIsFatal ==
    (WriteCalled /\ Len(wr_resp.data) > U16_MAX)
    => wr_result.kind = "Panic"

(***************************************************************************)
(* Properties of the event loop (Spec).                                    *)
(***************************************************************************)
\* a dispatch is in progress: handle_attribute_modified has issued its
\* set-value command and has not returned
DispatchInProgress == dispatch.result = "Pending"

\* C19: dispatches are serialized.  A dispatch is in progress exactly while
\* the firmware waits in perform_command for the completion of the
\* set-value command that dispatch issued; while it is, no other event is
\* dispatched (the event perform_command takes from the shared queue is
\* not handed to handle_event), the dispatch ends with that event, and a
\* new event is dispatched only from run's loop, where no dispatch is in
\* progress.
C19_DispatchesSerialized ==
    [][ /\ DispatchInProgress
           <=> (pc = "perform_command" /\ command.name = "update_characteristic_value")
        /\ DispatchInProgress
           => /\ command = dispatch.writes[1]
              /\ dispatch'.event = dispatch.event
              /\ dispatch'.writes = dispatch.writes
              /\ ~DispatchInProgress'
              /\ dispatch'.result = IF command_response'.type = "CommandComplete"
                                    THEN "Ok" ELSE "Panic"
        /\ dispatch' # dispatch /\ ~DispatchInProgress
           => pc = "run_loop" ]_vars

\* a dispatch that has run to completion: the completion event of its
\* command was taken from the queue inside perform_command
C19_Witness ==
    /\ dispatch.called
    /\ dispatch.result = "Ok"
    /\ Len(dispatch.writes) = 1
    /\ command_response.type = "CommandComplete"
    /\ pc = "run_loop"
    /\ command = NoCommand

\* the set-value writes of a dispatcher that has handled nothing yet, given
\* the payload
WritesOfFreshDispatcher(service_handle, data) ==
    LET did == ProtocolService_handle_attribute_modified(
                   ProtocolService_create_ble(service_handle), data)
    IN  IF did.kind = "SetValue" THEN <<did.command>> ELSE <<>>

\* the descriptor data is as create_ble set it up, and the last dispatch
\* wrote what a dispatcher without history writes for the same payload
DispatcherAsCreated ==
    /\ \E h \in ServiceHandles : protocol_service = ProtocolService_create_ble(h)
    /\ protocol_service.service.instance_id = 16
    /\ protocol_service.signature.instance_id = 17
    /\ protocol_service.version.instance_id = 18
    /\ protocol_service.service.uuid = UUID_PROTOCOL_INFORMATION
    /\ protocol_service.signature.uuid = UUID_SERVICE_SIGNATURE
    /\ protocol_service.version.uuid = UUID_VERSION_CHARACTERISTIC
    /\ protocol_service.signature.format = GattFormat_Data
    /\ protocol_service.version.format = GattFormat_String
    /\ protocol_service.signature.properties = HapProperties_SECURE_READ
    /\ protocol_service.version.properties = HapProperties_SECURE_READ
    /\ dispatch.called
         => dispatch.writes
              = WritesOfFreshDispatcher(protocol_service.service.service.handle,
                                        dispatch.event.data)

\* C20: the dispatcher retains no state between calls.  Every step leaves
\* its descriptor data (instance ids 0x10/0x11/0x12, UUIDs, formats,
\* properties) unchanged, and after any history of handled requests a
\* payload yields the outcome (number of writes, target characteristic,
\* written bytes) it yields for a dispatcher that has handled nothing, so
\* the outcome is the same after any two histories.
C20_DispatcherStateless ==
    /\ []DispatcherAsCreated
    /\ [][protocol_service' = protocol_service]_vars

\* an answered request while the stack still holds the answer to an earlier
\* request with another transaction id, after which a command completed
C20_Witness ==
    /\ IsAnsweredRequest
    /\ dispatch.result = "Pending"
    /\ command_response.type = "CommandComplete"
    /\ dispatch.event.data = TestVector
    /\ dispatch.writes = WritesOfFreshDispatcher(
                             protocol_service.service.service.handle, TestVector)

\* a CharacteristicSignatureRead for an id that is neither characteristic's
IsUnknownCharacteristicSignatureRead ==
    /\ IsDispatchedRequest("CharacteristicSignatureRead")
    /\ DispatchedPdu.char_id # protocol_service.signature.instance_id
    /\ DispatchedPdu.char_id # protocol_service.version.instance_id

\* C21: a CharacteristicSignatureRead addressed to an unrecognized
\* characteristic id is a no-op failure for the accessory as a whole: after
\* handle_event has processed it the firmware is back in run's loop, waiting
\* for the next event, so that a later ServiceSignatureRead for the service's
\* instance id can still be answered.
C21_UnknownCharacteristicKeepsLoopRunning ==
    IsUnknownCharacteristicSignatureRead
    => pc = "run_loop"

\* the capacity checks of the CharacteristicSignatureRead arm, recomputed
\* for the request of the last dispatch
CharacteristicSignatureFits ==
    LET body == CharacteristicSignatureBody(protocol_service, AddressedCharacteristic)
        response == HapResponse_new(DispatchedPdu.tid, "Success", body.buffer)
        written == HapResponse_write_into(response, Zeroes(70))
    IN  /\ body.kind = "Ok"
        /\ body.offset = 53
        /\ body.offset = Len(body.buffer)
        /\ HapResponse_size(response) = 58
        /\ HapResponse_size(response) <= 70
        /\ written.result.kind = "Ok"
        /\ HapResponse_size(response) <= SignatureHandles.max_len
        /\ Len(dispatch.writes) = 1
        /\ Len(dispatch.writes[1].value) = 58

\* the capacity checks of the ServiceSignatureRead arm
ServiceSignatureFits ==
    LET response == HapResponse_new(DispatchedPdu.tid, "Success",
                                    ServiceSignatureResponseData)
        written == HapResponse_write_into(response, Zeroes(50))
    IN  /\ HapResponse_size(response) = 11
        /\ HapResponse_size(response) <= 50
        /\ written.result.kind = "Ok"
        /\ HapResponse_size(response) <= SignatureHandles.max_len
        /\ Len(dispatch.writes) = 1
        /\ Len(dispatch.writes[1].value) = 11

\* C22: no capacity assertion of the dispatcher fails.  For a
\* CharacteristicSignatureRead to either owned characteristic the five TLV
\* items fill the 53-byte body exactly (offset = 53), the 58-byte framed
\* response fits the 70-byte frame buffer; the 11-byte ServiceSignatureRead
\* response fits its 50-byte frame buffer; both are no longer than the
\* signature characteristic's maximum value length 100, so write_into does
\* not return InsufficientBuffer, set_value does not reject the value and
\* the set-value command is issued.
C22_NoCapacityAssertionFails ==
    /\ SignatureHandles.max_len = 100
    /\ IsOwnedCharacteristicSignatureRead => CharacteristicSignatureFits
    /\ (IsDispatchedRequest("ServiceSignatureRead")
          /\ DispatchedPdu.char_id = protocol_service.service.instance_id)
         => ServiceSignatureFits

C22_Witness ==
    /\ IsOwnedCharacteristicSignatureRead
    /\ DispatchedPdu.char_id = protocol_service.signature.instance_id
    /\ CharacteristicSignatureFits
    /\ Len(gatt_value[SignatureHandles.characteristic]) = 58
    /\ dispatch.result = "Ok"

\* the attribute handles of the protocol-information service
ServiceHandleRange ==
    LET service == protocol_service.service.service
    IN  service.handle .. (service.handle + service.max_num_attributes - 1)

\* the last event did not reach the dispatcher: nothing was parsed, no
\* command was issued and run waits for the next event
NotDispatched ==
    /\ ~dispatch.called
    /\ dispatch.writes = <<>>
    /\ dispatch.result = "None"
    /\ pc = "run_loop"
    /\ command = NoCommand

\* C23: handle_event passes a GattAttributeModified event to the dispatcher
\* only if the written handle h satisfies service_handle <= h <
\* service_handle + 10; for every attribute-modified event with a handle
\* outside that range and for every non-vendor event it parses nothing and
\* issues no set-value write, whatever the payload.
C23_OnlyServiceHandlesDispatched ==
    /\ protocol_service.service.service.max_num_attributes = 10
    /\ dispatch.called
         => /\ dispatch.event.type = "GattAttributeModified"
            /\ dispatch.event.attr_handle \in ServiceHandleRange
    /\ (dispatch.event.type = "GattAttributeModified"
          /\ dispatch.event.attr_handle \notin ServiceHandleRange)
         => NotDispatched
    /\ dispatch.event.type \in {"NonVendorOther", "CommandComplete"}
         => NotDispatched

\* a write just past the service's range whose payload would stop the
\* parser; it is not parsed
C23_Witness ==
    /\ dispatch.event.type = "GattAttributeModified"
    /\ dispatch.event.attr_handle = protocol_service.service.service.handle + 10
    /\ HapPdu_parse(dispatch.event.data).kind = "Panic"
    /\ NotDispatched

=============================================================================
